---- MODULE Spec2Model ----
(***************************************************************************)
(* FastVideoProcessor (large-file variant, src/lib/fastVideoProcessor.ts   *)
(* lines 352-716): a pool of FFmpeg workers, a pending queue, an in-flight *)
(* map and the dispatch/poll loop of processSegments and                   *)
(* processAndDownloadSegments.                                             *)
(*                                                                         *)
(* One step of the model is one macrotask of the JavaScript event loop     *)
(* together with the microtasks it triggers: a public call, a worker       *)
(* message, a worker error event, a timer, the completion of a file read.  *)
(* An await on an already available value (memory mode) resumes in a       *)
(* microtask and so belongs to the step that started it; an await on       *)
(* File.arrayBuffer() (streaming mode) resumes in a later step.            *)
(***************************************************************************)
EXTENDS Integers, Sequences, FiniteSets, TLC

(* ---------------- bounds of the model ---------------- *)
MaxUnits == 2        \* largest maxConcurrentWorkers option tried
MaxJobs == 2         \* longest segment list submitted in one call
MaxBatches == 2      \* number of processSegments/processAndDownloadSegments calls

(* ---------------- program constants ---------------- *)
WorkerCap == 6           \* constructor: Math.min(..., 6)
LargeFileWorkers == 3    \* initialize: Math.min(this.maxWorkers, 3)
StreamingCutoffMB == 500 \* initialize: fileSizeMB > 500
DefaultThresholdMB == 1000 \* constructor: options.memoryThreshold || 1000
BasicWorkerCap == 8      \* basic constructor: Math.min(..., 8)
BasicDefaultWorkers == 4 \* basic constructor: ... || navigator.hardwareConcurrency || 4

(* ---------------- inputs ---------------- *)
OptWorkers == 0..MaxUnits          \* options.maxConcurrentWorkers (0 = not given)
HwHints == {2, 4}                  \* navigator.hardwareConcurrency
OptThresholds == {0, 300}          \* options.memoryThreshold in MB (0 = not given)
FileSizes == {400, 600}            \* videoFile.size in MB
Apis == {"buffer", "download"}     \* processSegments / processAndDownloadSegments

\* every kind of value the constructors accept: not given, negative, below,
\* at and above the ceilings; the hint is absent (0) in some browsers
WideOptWorkers == -1..10           \* options.maxConcurrentWorkers (0 = not given)
WideHwHints == {2, 4, 16, 32}      \* navigator.hardwareConcurrency
BasicHwHints == {0} \cup WideHwHints \* the same, 0 = undefined

Units == 1..WorkerCap
BasicUnits == 1..BasicWorkerCap
Batches == 1..MaxBatches
NoFile == -1
NoData == -1
NoJob == [id |-> 0, startTime |-> 0, endTime |-> 0, index |-> 0, src |-> 0]
EmptyMap == <<>>

Min(a, b) == IF a < b THEN a ELSE b
Max(a, b) == IF a > b THEN a ELSE b
Last(s) == s[Len(s)]
Front(s) == SubSeq(s, 1, Len(s) - 1)
Range(s) == {s[i] : i \in DOMAIN s}
RemoveKey(f, k) == [x \in DOMAIN f \ {k} |-> f[x]]

VARIABLES
  maxWorkers,         \* this.maxWorkers
  memoryThreshold,    \* this.memoryThreshold
  isFFmpegAvailable,  \* this.isFFmpegAvailable
  videoFile,          \* this.videoFile: size in MB, or NoFile for null
  videoData,          \* this.videoData: resident size in MB, or NoData for null
  workers,            \* this.workers
  availableWorkers,   \* this.availableWorkers (pop from the end, push to the end)
  processingQueue,    \* this.processingQueue (shift from the front)
  activeJobs,         \* this.activeJobs: segmentId -> [worker, owner, job]
  initPromise,        \* promise of initialize: none, pending, resolved, rejected
  workerPromise,      \* workerPromises of initialize: worker -> pending, true, false
  initHandler,        \* workers whose init 'message' listener is still registered
  initTimer,          \* workers whose init timeout is still armed
  unit,               \* worker side: [ffmpeg, req, logged] per unit
  batch,              \* per call: closure variables and promise of the call
  reading,            \* processNext invocations suspended in File.arrayBuffer()
  posted,             \* history: 'processSegment' messages posted, [job, worker]
  failed,             \* history: jobs whose failure a unit signalled
  succeeded,          \* history: jobs a unit answered with 'segmentComplete'
  settled,            \* history: job promises settled, [job, how]
  errored,            \* history: units that raised a worker error event
  readyInTime,        \* history: units that reported 'ready' before their timeout
  timedOut,           \* history: units whose init timeout fired
  basic,              \* the basic FastVideoProcessor: [maxWorkers, workers, init]
  batched             \* the closure of one processBatchedSegments call

vars == <<maxWorkers, memoryThreshold, isFFmpegAvailable, videoFile, videoData,
          workers, availableWorkers, processingQueue, activeJobs, initPromise,
          workerPromise, initHandler, initTimer, unit, batch, reading, posted,
          failed, succeeded, settled, errored, readyInTime, timedOut, basic, batched>>

fieldVars == <<maxWorkers, memoryThreshold, isFFmpegAvailable, videoFile, videoData, workers>>
initVars == <<initPromise, workerPromise, initHandler, initTimer, readyInTime, timedOut>>
auxVars == <<basic, batched>>

(* ---------------- constructor ---------------- *)
\* Math.min(options.maxConcurrentWorkers || Math.max(2, floor(hw / 2)), 6)
ConstructMaxWorkers(opt, hw) ==
  Min(IF opt # 0 THEN opt ELSE Max(2, hw \div 2), WorkerCap)

\* options.memoryThreshold || 1000
ConstructThreshold(opt) == IF opt # 0 THEN opt ELSE DefaultThresholdMB

\* the closure of one call: promise status, results, completed, checkInterval,
\* the calls made to onProgress (progress) and to streamingDownload (sink), and
\* the order in which the sink and the callbacks were invoked (calls)
NoBatch == [status |-> "none", api |-> "none", segments |-> <<>>, results |-> EmptyMap,
            completed |-> 0, timer |-> FALSE, progress |-> <<>>, sink |-> <<>>,
            calls |-> <<>>, error |-> "none"]

\* the basic processor before its constructor ran
NoBasic == [maxWorkers |-> 0, workers |-> <<>>, ready |-> {}, init |-> "none"]

\* processBatchedSegments not called yet
NoBatched == [status |-> "none", segments |-> <<>>, batchSize |-> 0, i |-> 0, call |-> 0,
              processedCount |-> 0, emitted |-> <<>>]

\* the fields after construction, this.maxWorkers apart
InitFields ==
  /\ memoryThreshold \in {ConstructThreshold(t) : t \in OptThresholds}
  /\ isFFmpegAvailable = TRUE
  /\ videoFile = NoFile
  /\ videoData = NoData
  /\ workers = <<>>
  /\ availableWorkers = <<>>
  /\ processingQueue = <<>>
  /\ activeJobs = EmptyMap
  /\ initPromise = "none"
  /\ workerPromise = EmptyMap
  /\ initHandler = {}
  /\ initTimer = {}
  /\ unit = [w \in Units |-> [ffmpeg |-> "none", req |-> NoJob, logged |-> FALSE]]
  /\ batch = [b \in Batches |-> NoBatch]
  /\ reading = {}
  /\ posted = {}
  /\ failed = {}
  /\ succeeded = {}
  /\ settled = {}
  /\ errored = {}
  /\ readyInTime = {}
  /\ timedOut = {}
  /\ basic = NoBasic
  /\ batched = NoBatched

Init ==
  /\ maxWorkers \in {ConstructMaxWorkers(o, h) : o \in OptWorkers, h \in HwHints}
  /\ InitFields

(* ---------------- initialize ---------------- *)
\* if (fileSizeMB > this.memoryThreshold) this.maxWorkers = Math.min(this.maxWorkers, 3)
InitMaxWorkers(mw, sizeMB, threshold) ==
  IF sizeMB > threshold THEN Min(mw, LargeFileWorkers) ELSE mw

\* if (fileSizeMB > 500) this.videoData = null else this.videoData = await arrayBuffer()
InitVideoData(sizeMB, threshold) ==
  IF sizeMB > StreamingCutoffMB THEN NoData ELSE sizeMB

\* get memoryUsage().isUsingMemoryMode
IsUsingMemoryMode == videoData # NoData

\* variant: the creation loop runs once more (i <= maxWorkers)
RECURSIVE CreatedSeqInclusive(_, _)
CreatedSeqInclusive(n, ok) ==
  IF n < 0 THEN <<>>
  ELSE IF n + 1 \in ok THEN Append(CreatedSeqInclusive(n - 1, ok), n + 1)
  ELSE CreatedSeqInclusive(n - 1, ok)

\* the worker ids 1..n for which new Worker() did not throw, in creation order
RECURSIVE CreatedSeq(_, _)
CreatedSeq(n, ok) ==
  IF n <= 0 THEN <<>>
  ELSE IF n \in ok THEN Append(CreatedSeq(n - 1, ok), n) ELSE CreatedSeq(n - 1, ok)

\* variant: every unit must have reported 'ready'
InitOutcomeAllRequired(wp) ==
  IF \E w \in DOMAIN wp : wp[w] # "true" THEN "rejected" ELSE "resolved"

\* results.filter(Boolean).length === 0 ? reject : resolve
InitOutcome(wp) ==
  IF Cardinality({w \in DOMAIN wp : wp[w] = "true"}) = 0 THEN "rejected" ELSE "resolved"

\* the continuation of `await Promise.all(workerPromises)`
SettleInit(wp) ==
  IF initPromise = "pending" /\ \A w \in DOMAIN wp : wp[w] # "pending"
  THEN /\ initPromise' = InitOutcome(wp)
       /\ isFFmpegAvailable' = IF InitOutcome(wp) = "rejected" THEN FALSE ELSE isFFmpegAvailable
  ELSE UNCHANGED <<initPromise, isFFmpegAvailable>>

\* initialize(videoFile); ok holds the loop indices at which new Worker() does
\* not throw.  Until the first unit reports 'ready' availableWorkers is empty,
\* so the await of the file load is not a point where a call can start work.
Initialize(sizeMB, ok) ==
  /\ initPromise = "none"
  /\ LET mw == InitMaxWorkers(maxWorkers, sizeMB, memoryThreshold)
         created == CreatedSeq(mw, ok)
     IN /\ videoFile' = sizeMB
        /\ maxWorkers' = mw
        /\ videoData' = InitVideoData(sizeMB, memoryThreshold)
        /\ workers' = created
        /\ isFFmpegAvailable' = IF Len(created) < mw THEN FALSE ELSE isFFmpegAvailable
        /\ unit' = [w \in Units |-> IF w \in Range(created)
                                    THEN [ffmpeg |-> "loading", req |-> NoJob, logged |-> FALSE]
                                    ELSE unit[w]]
        /\ IF Len(created) = 0
           THEN /\ initPromise' = "rejected"
                /\ UNCHANGED <<workerPromise, initHandler, initTimer>>
           ELSE /\ initPromise' = "pending"
                /\ workerPromise' = [w \in Range(created) |-> "pending"]
                /\ initHandler' = Range(created)
                /\ initTimer' = Range(created)
  /\ UNCHANGED <<auxVars, memoryThreshold, availableWorkers, processingQueue, activeJobs,
                 batch, reading, posted, failed, succeeded, settled, errored, readyInTime, timedOut>>

\* the worker posts 'ready'; the init listener (if still registered) handles it
WorkerReady(w) ==
  /\ unit[w].ffmpeg = "loading"
  /\ unit' = [unit EXCEPT ![w].ffmpeg = "loaded"]
  /\ IF w \in initHandler
     THEN /\ initHandler' = initHandler \ {w}
          /\ availableWorkers' = Append(availableWorkers, w)
          /\ initTimer' = initTimer \ {w}
          /\ readyInTime' = IF w \in initTimer THEN readyInTime \cup {w} ELSE readyInTime
          /\ LET wp == IF workerPromise[w] = "pending"
                       THEN [workerPromise EXCEPT ![w] = "true"] ELSE workerPromise
             IN workerPromise' = wp /\ SettleInit(wp)
     ELSE UNCHANGED <<initHandler, availableWorkers, initTimer, readyInTime,
                      workerPromise, initPromise, isFFmpegAvailable>>
  /\ UNCHANGED <<auxVars, maxWorkers, memoryThreshold, videoFile, videoData, workers,
                 processingQueue, activeJobs, batch, reading, posted, failed, succeeded,
                 settled, errored, timedOut>>

\* variant: a worker whose FFmpeg load failed answers the init request with 'ready'
WorkerInitErrorPostsReady(w) ==
  /\ unit[w].ffmpeg = "loading"
  /\ unit' = [unit EXCEPT ![w].ffmpeg = "failed"]
  /\ IF w \in initHandler
     THEN /\ initHandler' = initHandler \ {w}
          /\ availableWorkers' = Append(availableWorkers, w)
          /\ initTimer' = initTimer \ {w}
          /\ readyInTime' = IF w \in initTimer THEN readyInTime \cup {w} ELSE readyInTime
          /\ LET wp == IF workerPromise[w] = "pending"
                       THEN [workerPromise EXCEPT ![w] = "true"] ELSE workerPromise
             IN workerPromise' = wp /\ SettleInit(wp)
     ELSE UNCHANGED <<initHandler, availableWorkers, initTimer, readyInTime,
                      workerPromise, initPromise, isFFmpegAvailable>>
  /\ UNCHANGED <<auxVars, maxWorkers, memoryThreshold, videoFile, videoData, workers,
                 processingQueue, activeJobs, batch, reading, posted, failed, succeeded,
                 settled, errored, timedOut>>

\* the worker posts {type: 'error', ffmpegUnavailable: true} for its init request
WorkerInitError(w) ==
  /\ unit[w].ffmpeg = "loading"
  /\ unit' = [unit EXCEPT ![w].ffmpeg = "failed"]
  /\ IF w \in initHandler
     THEN /\ initHandler' = initHandler \ {w}
          /\ initTimer' = initTimer \ {w}
          /\ LET wp == IF workerPromise[w] = "pending"
                       THEN [workerPromise EXCEPT ![w] = "false"] ELSE workerPromise
             IN workerPromise' = wp /\ SettleInit(wp)
     ELSE UNCHANGED <<initHandler, initTimer, workerPromise, initPromise, isFFmpegAvailable>>
  /\ UNCHANGED <<auxVars, maxWorkers, memoryThreshold, videoFile, videoData, workers,
                 availableWorkers, processingQueue, activeJobs, batch, reading,
                 posted, failed, succeeded, settled, errored, readyInTime, timedOut>>

\* variant: the timeout only logs its warning and settles nothing
InitTimeoutWarnOnly(w) ==
  /\ w \in initTimer
  /\ initTimer' = initTimer \ {w}
  /\ timedOut' = timedOut \cup {w}
  /\ UNCHANGED <<auxVars, maxWorkers, memoryThreshold, videoFile, videoData, workers,
                 availableWorkers, processingQueue, activeJobs, initHandler, unit,
                 batch, reading, posted, failed, succeeded, settled, errored, readyInTime,
                 workerPromise, initPromise, isFFmpegAvailable>>

\* setTimeout(() => resolve(false), timeout): the listener stays registered
InitTimeout(w) ==
  /\ w \in initTimer
  /\ initTimer' = initTimer \ {w}
  /\ timedOut' = timedOut \cup {w}
  /\ LET wp == IF workerPromise[w] = "pending"
               THEN [workerPromise EXCEPT ![w] = "false"] ELSE workerPromise
     IN workerPromise' = wp /\ SettleInit(wp)
  /\ UNCHANGED <<auxVars, maxWorkers, memoryThreshold, videoFile, videoData, workers,
                 availableWorkers, processingQueue, activeJobs, initHandler, unit,
                 batch, reading, posted, failed, succeeded, settled, errored, readyInTime>>

(* ---------------- submitted jobs ---------------- *)
\* the increasing id sequences over 1..MaxJobs: segment ids are distinct within a call
RECURSIVE SeqOfSet(_)
SeqOfSet(S) ==
  IF S = {} THEN <<>>
  ELSE LET m == CHOOSE x \in S : \A y \in S : y <= x
       IN Append(SeqOfSet(S \ {m}), m)

IdLists == {SeqOfSet(S) : S \in SUBSET (1..MaxJobs)}

\* SegmentJob {id, startTime, endTime, index}; src (the call that submitted it) is
\* history information no guard reads.  A job at badPos carries startTime=5, endTime=2.
BuildSegments(ids, badPos, b) ==
  [i \in 1..Len(ids) |->
     [id |-> ids[i],
      startTime |-> IF i = badPos THEN 5 ELSE i - 1,
      endTime |-> IF i = badPos THEN 2 ELSE i,
      index |-> i - 1,
      src |-> b]]

\* worker: ffmpeg -ss startTime -t (endTime - startTime) -c copy
Codec(job) == <<job.startTime, job.endTime - job.startTime>>

\* generateSegmentFilename: `${baseName}_part${index + 1}.${format}`
GenerateSegmentFilename(index) == index + 1

\* get isAvailable()
IsAvailable == isFFmpegAvailable /\ Len(availableWorkers) > 0

(* ---------------- dispatch ---------------- *)
\* the part of the state a dispatch step works on
D0 == [availableWorkers |-> availableWorkers, processingQueue |-> processingQueue,
       activeJobs |-> activeJobs, unit |-> unit, posted |-> posted,
       reading |-> reading, batch |-> batch]

Commit(D) ==
  /\ availableWorkers' = D.availableWorkers
  /\ processingQueue' = D.processingQueue
  /\ activeJobs' = D.activeJobs
  /\ unit' = D.unit
  /\ posted' = D.posted
  /\ reading' = D.reading
  /\ batch' = D.batch

\* reject(error) of the promise of call b: a settled promise stays as it is
Reject(bt, b, err) ==
  IF bt[b].status = "pending"
  THEN [bt EXCEPT ![b].status = "rejected", ![b].error = err]
  ELSE bt

\* variant: processNext returns at its entry test without resolving
ResolveSkipped(bt, b) == bt

\* resolve(results) of the promise of call b
Resolve(bt, b) ==
  IF bt[b].status = "pending" THEN [bt EXCEPT ![b].status = "resolved"] ELSE bt

\* variant: the resident buffer is used only while no job is waiting
GetVideoDataWhenQueueEmpty ==
  IF videoData # NoData /\ Len(processingQueue) = 0 THEN "memory"
  ELSE IF videoFile # NoFile THEN "read"
  ELSE "throw"

\* getVideoDataForSegment: resident buffer, a read of the file, or a throw
GetVideoDataForSegment ==
  IF videoData # NoData THEN "memory"
  ELSE IF videoFile # NoFile THEN "read"
  ELSE "throw"

\* this.activeJobs.set(job.id, {worker, resolve, reject}); worker.postMessage(...)
PostJob(D, b, worker, job) ==
  LET u == D.unit
  IN [D EXCEPT
        !.activeJobs = (job.id :> [worker |-> worker, owner |-> b, job |-> job]) @@ @,
        !.posted = @ \cup {[job |-> job, worker |-> worker]},
        !.unit = IF u[worker].ffmpeg = "terminated" THEN u
                 ELSE [u EXCEPT ![worker].req = job]]

\* variant: the loop reads the last idle unit without removing it
RECURSIVE DispatchLoopKeepsUnit(_, _)
DispatchLoopKeepsUnit(D, b) ==
  IF Len(D.availableWorkers) > 0 /\ Len(D.processingQueue) > 0
  THEN LET worker == Last(D.availableWorkers)
           job == Head(D.processingQueue)
           D1 == [D EXCEPT !.processingQueue = Tail(@)]
       IN CASE GetVideoDataForSegment = "memory" ->
                 DispatchLoopKeepsUnit(PostJob(D1, b, worker, job), b)
            [] GetVideoDataForSegment = "read" ->
                 [D1 EXCEPT !.reading = @ \cup {[worker |-> worker, job |-> job, owner |-> b]}]
            [] OTHER ->
                 [D1 EXCEPT !.batch = Reject(@, b, "No video data available")]
  ELSE D

\* the while loop of processNext, up to its next suspension in a file read
RECURSIVE DispatchLoop(_, _)
DispatchLoop(D, b) ==
  IF Len(D.availableWorkers) > 0 /\ Len(D.processingQueue) > 0
  THEN LET worker == Last(D.availableWorkers)
           job == Head(D.processingQueue)
           D1 == [D EXCEPT !.availableWorkers = Front(@), !.processingQueue = Tail(@)]
       IN CASE GetVideoDataForSegment = "memory" ->
                 DispatchLoop(PostJob(D1, b, worker, job), b)
            [] GetVideoDataForSegment = "read" ->
                 [D1 EXCEPT !.reading = @ \cup {[worker |-> worker, job |-> job, owner |-> b]}]
            [] OTHER ->
                 [D1 EXCEPT !.batch = Reject(@, b, "No video data available")]
  ELSE D

\* variant: the entry test looks at the in-flight map only
ProcessNextIgnoresQueue(D, b) ==
  IF DOMAIN D.activeJobs = {}
  THEN [D EXCEPT !.batch = Resolve(@, b)]
  ELSE DispatchLoop(D, b)

\* processNext of call b, from its entry
ProcessNext(D, b) ==
  IF Len(D.processingQueue) = 0 /\ DOMAIN D.activeJobs = {}
  THEN [D EXCEPT !.batch = Resolve(@, b)]
  ELSE DispatchLoop(D, b)

\* variant: the progress callback reports the position of the job
OnJobResolvedByIndex(bt, e, data) ==
  LET b == e.owner
      job == e.job
  IN [bt EXCEPT
        ![b].results = IF bt[b].api = "buffer" THEN (job.id :> data) @@ @ ELSE @,
        ![b].sink = IF bt[b].api = "download"
                    THEN Append(@, <<GenerateSegmentFilename(job.index), data>>) ELSE @,
        ![b].completed = @ + 1,
        ![b].progress = Append(@, <<job.index + 1, Len(bt[b].segments)>>),
        ![b].calls = IF bt[b].api = "download"
                     THEN @ \o <<(<<"sink", job.id>>), (<<"progress", job.id>>), (<<"segment", job.id>>)>>
                     ELSE @ \o <<(<<"progress", job.id>>), (<<"segment", job.id>>)>>]

\* variant: the file is named after the number of jobs completed so far
OnJobResolvedNamesByOrder(bt, e, data) ==
  LET b == e.owner
      job == e.job
      completed == bt[b].completed + 1
  IN [bt EXCEPT
        ![b].results = IF bt[b].api = "buffer" THEN (job.id :> data) @@ @ ELSE @,
        ![b].sink = IF bt[b].api = "download"
                    THEN Append(@, <<completed, data>>) ELSE @,
        ![b].completed = completed,
        ![b].progress = Append(@, <<completed, Len(bt[b].segments)>>),
        ![b].calls = IF bt[b].api = "download"
                     THEN @ \o <<(<<"sink", job.id>>), (<<"progress", job.id>>), (<<"segment", job.id>>)>>
                     ELSE @ \o <<(<<"progress", job.id>>), (<<"segment", job.id>>)>>]

\* jobPromise.then(...) of the call that dispatched the job: the sink or the
\* result map first, then onProgress, then the per-segment callback
OnJobResolved(bt, e, data) ==
  LET b == e.owner
      job == e.job
      completed == bt[b].completed + 1
  IN [bt EXCEPT
        ![b].results = IF bt[b].api = "buffer" THEN (job.id :> data) @@ @ ELSE @,
        ![b].sink = IF bt[b].api = "download"
                    THEN Append(@, <<GenerateSegmentFilename(job.index), data>>) ELSE @,
        ![b].completed = completed,
        ![b].progress = Append(@, <<completed, Len(bt[b].segments)>>),
        ![b].calls = IF bt[b].api = "download"
                     THEN @ \o <<(<<"sink", job.id>>), (<<"progress", job.id>>), (<<"segment", job.id>>)>>
                     ELSE @ \o <<(<<"progress", job.id>>), (<<"segment", job.id>>)>>]

(* ---------------- public calls ---------------- *)
Thrown(b, api, segs, err) ==
  [NoBatch EXCEPT !.status = "thrown", !.api = api, !.segments = segs, !.error = err]

\* variant: the call does not test this.videoFile
ProcessSegmentsUnchecked(b, api, segs) ==
  /\ batch[b].status = "none"
  /\ \A c \in Batches : c < b => batch[c].status # "none"
  /\ IF ~IsAvailable
     THEN /\ batch' = [batch EXCEPT ![b] = Thrown(b, api, segs, "No FFmpeg workers available")]
          /\ UNCHANGED <<availableWorkers, processingQueue, activeJobs, unit, posted, reading>>
     ELSE LET started == [NoBatch EXCEPT !.status = "pending", !.api = api,
                                         !.segments = segs, !.timer = TRUE]
              D1 == [D0 EXCEPT !.processingQueue = segs, !.batch[b] = started]
          IN Commit(ProcessNext(D1, b))
  /\ UNCHANGED <<auxVars, fieldVars, initVars, failed, succeeded, settled, errored>>

\* variant: the call does not test isAvailable and queues its jobs
StartCallQueues(b, api, segs) ==
  IF videoFile = NoFile
  THEN /\ batch' = [batch EXCEPT ![b] = Thrown(b, api, segs, "Video processor not initialized")]
       /\ UNCHANGED <<availableWorkers, processingQueue, activeJobs, unit, posted, reading>>
  ELSE LET started == [NoBatch EXCEPT !.status = "pending", !.api = api,
                                      !.segments = segs, !.timer = TRUE]
           D1 == [D0 EXCEPT !.processingQueue = segs, !.batch[b] = started]
       IN Commit(ProcessNext(D1, b))

\* the body of processSegments / processAndDownloadSegments run as call b
StartCall(b, api, segs) ==
  IF videoFile = NoFile
  THEN /\ batch' = [batch EXCEPT ![b] = Thrown(b, api, segs, "Video processor not initialized")]
       /\ UNCHANGED <<availableWorkers, processingQueue, activeJobs, unit, posted, reading>>
  ELSE IF ~IsAvailable
  THEN /\ batch' = [batch EXCEPT ![b] = Thrown(b, api, segs, "No FFmpeg workers available")]
       /\ UNCHANGED <<availableWorkers, processingQueue, activeJobs, unit, posted, reading>>
  ELSE LET started == [NoBatch EXCEPT !.status = "pending", !.api = api,
                                      !.segments = segs, !.timer = TRUE]
           D1 == [D0 EXCEPT !.processingQueue = segs, !.batch[b] = started]
       IN Commit(ProcessNext(D1, b))

\* processSegments (api = "buffer") and processAndDownloadSegments (api = "download")
ProcessSegments(b, api, segs) ==
  /\ batch[b].status = "none"
  /\ \A c \in Batches : c < b => batch[c].status # "none"
  /\ StartCall(b, api, segs)
  /\ UNCHANGED <<auxVars, fieldVars, initVars, failed, succeeded, settled, errored>>

\* one firing of checkInterval of call b
Tick(b) ==
  /\ batch[b].timer
  /\ LET called == Len(availableWorkers) > 0 /\ Len(processingQueue) > 0
         D1 == IF called THEN ProcessNext(D0, b) ELSE D0
         \* the second test runs when processNext() has returned at its first await
         queueThen == IF called THEN Tail(processingQueue) ELSE processingQueue
         clear == Len(queueThen) = 0 /\ DOMAIN activeJobs = {}
     IN Commit([D1 EXCEPT !.batch[b].timer = ~clear])
  /\ UNCHANGED <<auxVars, fieldVars, initVars, failed, succeeded, settled, errored>>

\* File.arrayBuffer() of a suspended processNext settles
ReadDone(r, ok) ==
  /\ r \in reading
  /\ LET D1 == [D0 EXCEPT !.reading = @ \ {r}]
     IN IF ok
        THEN Commit(DispatchLoop(PostJob(D1, r.owner, r.worker, r.job), r.owner))
        ELSE Commit([D1 EXCEPT !.batch = Reject(@, r.owner, "read failed")])
  /\ UNCHANGED <<auxVars, fieldVars, initVars, failed, succeeded, settled, errored>>

(* ---------------- worker messages ---------------- *)
\* variant: the replying unit is returned also when no entry was found
WorkerCompleteAlwaysReturns(w) ==
  /\ unit[w].ffmpeg = "loaded"
  /\ unit[w].req # NoJob
  /\ LET job == unit[w].req
     IN /\ unit' = [unit EXCEPT ![w].req = NoJob]
        /\ succeeded' = succeeded \cup {job}
        /\ IF job.id \in DOMAIN activeJobs
           THEN /\ batch' = OnJobResolved(batch, activeJobs[job.id], Codec(job))
                /\ settled' = settled \cup {[job |-> activeJobs[job.id].job, how |-> "resolved"]}
                /\ activeJobs' = RemoveKey(activeJobs, job.id)
                /\ availableWorkers' = Append(availableWorkers, w)
           ELSE /\ availableWorkers' = Append(availableWorkers, w)
                /\ UNCHANGED <<batch, settled, activeJobs>>
  /\ UNCHANGED <<auxVars, fieldVars, initVars, processingQueue, reading, posted, failed, errored>>

\* the unit posts 'segmentComplete' for its request; handleWorkerMessage
WorkerComplete(w) ==
  /\ unit[w].ffmpeg = "loaded"
  /\ unit[w].req # NoJob
  /\ LET job == unit[w].req
     IN /\ unit' = [unit EXCEPT ![w].req = NoJob]
        /\ succeeded' = succeeded \cup {job}
        /\ IF job.id \in DOMAIN activeJobs
           THEN /\ batch' = OnJobResolved(batch, activeJobs[job.id], Codec(job))
                /\ settled' = settled \cup {[job |-> activeJobs[job.id].job, how |-> "resolved"]}
                /\ activeJobs' = RemoveKey(activeJobs, job.id)
                /\ availableWorkers' = Append(availableWorkers, w)
           ELSE UNCHANGED <<batch, settled, activeJobs, availableWorkers>>
  /\ UNCHANGED <<auxVars, fieldVars, initVars, processingQueue, reading, posted, failed, errored>>

\* variant: a job answered with 'error' is put back in the pending queue
WorkerErrorRetries(w) ==
  /\ unit[w].ffmpeg = "loaded"
  /\ unit[w].req # NoJob
  /\ LET job == unit[w].req
     IN /\ unit' = [unit EXCEPT ![w].req = NoJob]
        /\ failed' = failed \cup {job}
        /\ IF job.id \in DOMAIN activeJobs
           THEN /\ processingQueue' = Append(processingQueue, activeJobs[job.id].job)
                /\ activeJobs' = RemoveKey(activeJobs, job.id)
                /\ availableWorkers' = Append(availableWorkers, w)
           ELSE UNCHANGED <<processingQueue, activeJobs, availableWorkers>>
  /\ UNCHANGED <<auxVars, fieldVars, initVars, batch, settled, reading, posted, succeeded, errored>>

\* the unit posts 'error' with the segmentId of its request; handleWorkerMessage
WorkerError(w) ==
  /\ unit[w].ffmpeg = "loaded"
  /\ unit[w].req # NoJob
  /\ LET job == unit[w].req
     IN /\ unit' = [unit EXCEPT ![w].req = NoJob]
        /\ failed' = failed \cup {job}
        /\ IF job.id \in DOMAIN activeJobs
           THEN /\ batch' = Reject(batch, activeJobs[job.id].owner, "job error")
                /\ settled' = settled \cup {[job |-> activeJobs[job.id].job, how |-> "rejected"]}
                /\ activeJobs' = RemoveKey(activeJobs, job.id)
                /\ availableWorkers' = Append(availableWorkers, w)
           ELSE UNCHANGED <<batch, settled, activeJobs, availableWorkers>>
  /\ UNCHANGED <<auxVars, fieldVars, initVars, processingQueue, reading, posted, succeeded, errored>>

RECURSIVE RejectAll(_, _)
RejectAll(bt, owners) ==
  IF owners = {} THEN bt
  ELSE LET b == CHOOSE x \in owners : TRUE
       IN RejectAll(Reject(bt, b, "Worker error"), owners \ {b})

\* worker.onerror; handleWorkerError
HandleWorkerError(w) ==
  /\ unit[w].ffmpeg = "loaded"
  /\ unit[w].req # NoJob
  /\ LET mine == {k \in DOMAIN activeJobs : activeJobs[k].worker = w}
     IN /\ batch' = RejectAll(batch, {activeJobs[k].owner : k \in mine})
        /\ activeJobs' = [k \in DOMAIN activeJobs \ mine |-> activeJobs[k]]
        /\ settled' = settled \cup {[job |-> activeJobs[k].job, how |-> "rejected"] : k \in mine}
        /\ failed' = failed \cup {unit[w].req}
        /\ errored' = errored \cup {w}
  /\ UNCHANGED <<auxVars, fieldVars, initVars, availableWorkers, processingQueue, unit, reading,
                 posted, succeeded>>

\* the unit posts a 'log' or 'progress' message while it works on a request;
\* handleWorkerMessage prints a 'log' and has no case for 'progress'
WorkerLog(w) ==
  /\ unit[w].ffmpeg = "loaded"
  /\ unit[w].req # NoJob
  /\ ~unit[w].logged
  /\ unit' = [unit EXCEPT ![w].logged = TRUE]
  /\ UNCHANGED <<auxVars, fieldVars, initVars, availableWorkers, processingQueue, activeJobs,
                 batch, reading, posted, failed, succeeded, settled, errored>>

(* ---------------- destroy ---------------- *)
\* variant: destroy() leaves this.availableWorkers as it is
DestroyKeepsIdle ==
  /\ initPromise \in {"resolved", "rejected"}
  /\ videoFile # NoFile
  /\ unit' = [w \in Units |-> IF w \in Range(workers)
                              THEN [unit[w] EXCEPT !.ffmpeg = "terminated", !.req = NoJob] ELSE unit[w]]
  /\ workers' = <<>>
  /\ availableWorkers' = availableWorkers
  /\ activeJobs' = EmptyMap
  /\ processingQueue' = <<>>
  /\ videoData' = NoData
  /\ videoFile' = NoFile
  /\ UNCHANGED <<auxVars, maxWorkers, memoryThreshold, isFFmpegAvailable, initVars,
                 batch, reading, posted, failed, succeeded, settled, errored>>

\* destroy() of a processor whose initialize has settled (the callers destroy
\* only processors they obtained from a settled initialize)
Destroy ==
  /\ initPromise \in {"resolved", "rejected"}
  /\ videoFile # NoFile
  /\ unit' = [w \in Units |-> IF w \in Range(workers)
                              THEN [unit[w] EXCEPT !.ffmpeg = "terminated", !.req = NoJob] ELSE unit[w]]
  /\ workers' = <<>>
  /\ availableWorkers' = <<>>
  /\ activeJobs' = EmptyMap
  /\ processingQueue' = <<>>
  /\ videoData' = NoData
  /\ videoFile' = NoFile
  /\ UNCHANGED <<auxVars, maxWorkers, memoryThreshold, isFFmpegAvailable, initVars,
                 batch, reading, posted, failed, succeeded, settled, errored>>

(* ---------------- processBatchedSegments ---------------- *)
\* `segment_${segment.index + 1}.${outputFormat}`
BatchedFilename(index) == index + 1

\* segments.slice(i, i + batchSize), submitted as call b
Chunk(segs, i, size, b) ==
  [k \in 1..Min(size, Len(segs) - i) |-> [segs[i + k] EXCEPT !.src = b]]

\* the ids of the results of call b in the iteration order of the Map, which
\* is the order of results.set
ResultOrder(b) ==
  SelectSeq(batch[b].calls, LAMBDA c : c[1] = "segment")

\* the filenames handed to streamingDownload for the results of call b
RECURSIVE EmitResults(_, _)
EmitResults(order, chunk) ==
  IF order = <<>> THEN <<>>
  ELSE LET found == {k \in DOMAIN chunk : chunk[k].id = Head(order)[2]}
       IN (IF found = {} THEN <<>>
           ELSE <<BatchedFilename(chunk[CHOOSE k \in found : \A m \in found : k <= m].index)>>)
          \o EmitResults(Tail(order), chunk)

\* processBatchedSegments(processor, segments, batchSize): the loop up to its
\* first await; an empty list returns at once
ProcessBatchedSegments(segs, size) ==
  /\ batched.status = "none"
  /\ batch[1].status = "none"
  /\ IF Len(segs) = 0
     THEN /\ batched' = [NoBatched EXCEPT !.status = "done", !.batchSize = size]
          /\ UNCHANGED <<availableWorkers, processingQueue, activeJobs, unit, posted,
                         reading, batch>>
     ELSE /\ StartCall(1, "buffer", Chunk(segs, 0, size, 1))
          /\ batched' = [NoBatched EXCEPT !.status = "waiting", !.segments = segs,
                                          !.batchSize = size, !.call = 1]
  /\ UNCHANGED <<fieldVars, initVars, failed, succeeded, settled, errored, basic>>

\* variant: a rejected chunk is skipped and the loop goes on
BatchedResumeSwallows ==
  /\ \/ /\ batched.status = "waiting"
        /\ batch[batched.call].status \in {"thrown", "rejected"}
        /\ batched' = [batched EXCEPT !.status = "delay"]
        /\ UNCHANGED <<availableWorkers, processingQueue, activeJobs, unit, posted,
                       reading, batch>>
     \/ /\ batched.status = "waiting"
        /\ batch[batched.call].status = "resolved"
        /\ LET chunk == batch[batched.call].segments
           IN batched' = [batched EXCEPT !.status = "delay",
                            !.emitted = @ \o EmitResults(ResultOrder(batched.call), chunk),
                            !.processedCount = @ + Len(chunk)]
        /\ UNCHANGED <<availableWorkers, processingQueue, activeJobs, unit, posted,
                       reading, batch>>
     \/ /\ batched.status = "delay"
        /\ LET i == batched.i + batched.batchSize
               b == batched.call + 1
           IN IF i < Len(batched.segments)
              THEN /\ b \in Batches
                   /\ StartCall(b, "buffer", Chunk(batched.segments, i, batched.batchSize, b))
                   /\ batched' = [batched EXCEPT !.status = "waiting", !.i = i, !.call = b]
              ELSE /\ batched' = [batched EXCEPT !.status = "done", !.i = i]
                   /\ UNCHANGED <<availableWorkers, processingQueue, activeJobs, unit,
                                  posted, reading, batch>>
  /\ UNCHANGED <<fieldVars, initVars, failed, succeeded, settled, errored, basic>>

\* the continuation of the await the helper is suspended in: after
\* `await processor.processSegments(...)` it emits the results and starts the
\* 50 ms delay, or the rejection of the call rejects the helper; after the
\* delay it submits the next chunk or returns
BatchedResume ==
  /\ \/ /\ batched.status = "waiting"
        /\ batch[batched.call].status \in {"thrown", "rejected"}
        /\ batched' = [batched EXCEPT !.status = "rejected"]
        /\ UNCHANGED <<availableWorkers, processingQueue, activeJobs, unit, posted,
                       reading, batch>>
     \/ /\ batched.status = "waiting"
        /\ batch[batched.call].status = "resolved"
        /\ LET chunk == batch[batched.call].segments
           IN batched' = [batched EXCEPT !.status = "delay",
                            !.emitted = @ \o EmitResults(ResultOrder(batched.call), chunk),
                            !.processedCount = @ + Len(chunk)]
        /\ UNCHANGED <<availableWorkers, processingQueue, activeJobs, unit, posted,
                       reading, batch>>
     \/ /\ batched.status = "delay"
        /\ LET i == batched.i + batched.batchSize
               b == batched.call + 1
           IN IF i < Len(batched.segments)
              THEN /\ b \in Batches
                   /\ StartCall(b, "buffer", Chunk(batched.segments, i, batched.batchSize, b))
                   /\ batched' = [batched EXCEPT !.status = "waiting", !.i = i, !.call = b]
              ELSE /\ batched' = [batched EXCEPT !.status = "done", !.i = i]
                   /\ UNCHANGED <<availableWorkers, processingQueue, activeJobs, unit,
                                  posted, reading, batch>>
  /\ UNCHANGED <<fieldVars, initVars, failed, succeeded, settled, errored, basic>>

(* ---------------- the basic (memory-only) processor ---------------- *)
\* Math.min(options.maxConcurrentWorkers || navigator.hardwareConcurrency || 4, 8)
BasicConstructMaxWorkers(opt, hw) ==
  Min(IF opt # 0 THEN opt ELSE IF hw # 0 THEN hw ELSE BasicDefaultWorkers, BasicWorkerCap)

\* new FastVideoProcessor(options) of the basic class
BasicConstruct(opt, hw) ==
  /\ basic.init = "none"
  /\ basic' = [maxWorkers |-> BasicConstructMaxWorkers(opt, hw), workers |-> <<>>,
               ready |-> {}, init |-> "constructed"]
  /\ UNCHANGED <<fieldVars, initVars, availableWorkers, processingQueue, activeJobs, unit,
                 batch, reading, posted, failed, succeeded, settled, errored, batched>>

\* initialize(videoFile) of the basic class: the file is read, then the loop
\* creates maxWorkers workers with no try/catch; readOk tells whether
\* arrayBuffer() succeeds and k is the iteration at which new Worker() throws
\* (0 = none).  Promise.all of an empty list resolves at once.
BasicInitialize(readOk, k) ==
  /\ basic.init = "constructed"
  /\ LET mw == basic.maxWorkers
         thrown == k \in 1..mw
         n == IF thrown THEN k - 1 ELSE Max(mw, 0)
     IN basic' = IF ~readOk THEN [basic EXCEPT !.init = "rejected"]
                 ELSE [basic EXCEPT !.workers = [i \in 1..n |-> i],
                                    !.init = IF thrown THEN "rejected"
                                             ELSE IF n = 0 THEN "resolved" ELSE "pending"]
  /\ UNCHANGED <<fieldVars, initVars, availableWorkers, processingQueue, activeJobs, unit,
                 batch, reading, posted, failed, succeeded, settled, errored, batched>>

\* a worker of the basic class posts 'ready': its handler resolves its promise
BasicWorkerReady(w) ==
  /\ basic.init = "pending"
  /\ w \in Range(basic.workers) \ basic.ready
  /\ basic' = [basic EXCEPT !.ready = @ \cup {w},
                            !.init = IF basic.ready \cup {w} = Range(basic.workers)
                                     THEN "resolved" ELSE "pending"]
  /\ UNCHANGED <<fieldVars, initVars, availableWorkers, processingQueue, activeJobs, unit,
                 batch, reading, posted, failed, succeeded, settled, errored, batched>>

NextInit ==
  \/ \E s \in FileSizes, ok \in SUBSET (1..MaxUnits) : Initialize(s, ok)
  \/ \E w \in Units : WorkerReady(w)
  \/ \E w \in Units : WorkerInitError(w)
  \/ \E w \in Units : InitTimeout(w)

SpecInit == Init /\ [][NextInit]_vars

\* the 10 s timers of initialize fire; the units may answer or stay silent
InitFairness == \A w \in Units : WF_vars(InitTimeout(w))

SpecInitLive == Init /\ [][NextInit]_vars /\ InitFairness

\* construction and initialize of both classes, over the wide inputs
InitUnits ==
  /\ maxWorkers \in {ConstructMaxWorkers(o, h) : o \in WideOptWorkers, h \in WideHwHints}
  /\ InitFields

NextUnits ==
  \/ \E s \in FileSizes, ok \in SUBSET (1..MaxUnits) \cup {Units} : Initialize(s, ok)
  \/ \E o \in WideOptWorkers, h \in BasicHwHints : BasicConstruct(o, h)
  \/ \E readOk \in BOOLEAN, k \in 0..BasicWorkerCap : BasicInitialize(readOk, k)
  \/ \E w \in BasicUnits : BasicWorkerReady(w)

SpecUnits == InitUnits /\ [][NextUnits]_vars

\* one call on one processor, from construction to destroy
Next ==
  \/ NextInit
  \/ \E api \in Apis, ids \in IdLists, bad \in 0..1 :
        ProcessSegments(1, api, BuildSegments(ids, bad, 1))
  \/ Tick(1)
  \/ \E r \in reading, ok \in BOOLEAN : ReadDone(r, ok)
  \/ \E w \in Units : WorkerComplete(w)
  \/ \E w \in Units : WorkerError(w)
  \/ \E w \in Units : HandleWorkerError(w)
  \/ Destroy

Spec == Init /\ [][Next]_vars

\* several calls on one pool whose units all load FFmpeg
NextCalls ==
  \/ \E sz \in FileSizes : Initialize(sz, Units)
  \/ \E w \in Units : WorkerReady(w)
  \/ \E b \in Batches, api \in Apis, ids \in IdLists :
        ProcessSegments(b, api, BuildSegments(ids, 0, b))
  \/ \E b \in Batches : Tick(b)
  \/ \E r \in reading, ok \in BOOLEAN : ReadDone(r, ok)
  \/ \E w \in Units : WorkerComplete(w)
  \/ \E w \in Units : WorkerError(w)
  \/ \E w \in Units : HandleWorkerError(w)

SpecCalls == Init /\ [][NextCalls]_vars

\* several calls on one pool in which every unit loads FFmpeg, every read
\* succeeds and every dispatched job is answered with 'segmentComplete'; a
\* call made while a unit is idle is a processSegments call, a call made
\* while none is idle is either of the two
BusyApis == IF IsAvailable THEN {"buffer"} ELSE Apis

NextBusy ==
  \/ \E sz \in FileSizes : Initialize(sz, Units)
  \/ \E w \in Units : WorkerReady(w)
  \/ \E b \in Batches, api \in BusyApis, ids \in IdLists :
        ProcessSegments(b, api, BuildSegments(ids, 0, b))
  \/ \E b \in Batches : Tick(b)
  \/ \E r \in reading : ReadDone(r, TRUE)
  \/ \E w \in Units : WorkerComplete(w)

SpecBusy == Init /\ [][NextBusy]_vars

\* one call in which every unit loads FFmpeg, every read succeeds and every
\* dispatched job is answered with 'segmentComplete'; destroy is not called
NextLive ==
  \/ \E sz \in FileSizes : Initialize(sz, Units)
  \/ \E w \in Units : WorkerReady(w)
  \/ \E api \in Apis, ids \in IdLists : ProcessSegments(1, api, BuildSegments(ids, 0, 1))
  \/ Tick(1)
  \/ \E r \in reading : ReadDone(r, TRUE)
  \/ \E w \in Units : WorkerComplete(w)

\* timers fire, reads finish, units answer
Fairness ==
  /\ WF_vars(Tick(1))
  /\ WF_vars(\E r \in reading : ReadDone(r, TRUE))
  /\ \A w \in Units : WF_vars(WorkerComplete(w))
  /\ \A w \in Units : WF_vars(WorkerReady(w))

SpecLive == Init /\ [][NextLive]_vars /\ Fairness

\* the full lifecycle of one call with its scheduling: the poll timer and the
\* init timeouts fire, a read settles one way or the other, a unit that holds
\* a request answers it; worker error events and destroy may or may not happen
TimerFairness ==
  /\ WF_vars(Tick(1))
  /\ WF_vars(\E r \in reading, ok \in BOOLEAN : ReadDone(r, ok))
  /\ \A w \in Units : WF_vars(WorkerComplete(w) \/ WorkerError(w))
  /\ InitFairness

SpecTimer == Init /\ [][Next]_vars /\ TimerFairness

\* one call on a pool whose units are all created, with every message a unit
\* can post: 'ready', the init error, 'log', 'segmentComplete', 'error', and
\* the replies that arrive after a worker error event
NextMessages ==
  \/ \E sz \in FileSizes : Initialize(sz, Units)
  \/ \E w \in Units : WorkerReady(w)
  \/ \E w \in Units : WorkerInitError(w)
  \/ \E api \in Apis, ids \in IdLists : ProcessSegments(1, api, BuildSegments(ids, 0, 1))
  \/ Tick(1)
  \/ \E r \in reading : ReadDone(r, TRUE)
  \/ \E w \in Units : WorkerLog(w)
  \/ \E w \in Units : WorkerComplete(w)
  \/ \E w \in Units : WorkerError(w)
  \/ \E w \in Units : HandleWorkerError(w)

SpecMessages == Init /\ [][NextMessages]_vars

\* one processBatchedSegments call on a pool in which every unit loads FFmpeg,
\* every read succeeds and every dispatched job is answered with
\* 'segmentComplete'; the helper may be called before or after initialize
BatchSizes == 1..MaxJobs

NextBatched ==
  \/ \E sz \in FileSizes : Initialize(sz, Units)
  \/ \E w \in Units : WorkerReady(w)
  \/ \E ids \in IdLists, size \in BatchSizes :
        ProcessBatchedSegments(BuildSegments(ids, 0, 1), size)
  \/ BatchedResume
  \/ \E b \in Batches : Tick(b)
  \/ \E r \in reading : ReadDone(r, TRUE)
  \/ \E w \in Units : WorkerComplete(w)

\* timers fire, reads finish, units answer, the helper's continuation runs
BatchedFairness ==
  /\ \A b \in Batches : WF_vars(Tick(b))
  /\ WF_vars(\E r \in reading : ReadDone(r, TRUE))
  /\ \A w \in Units : WF_vars(WorkerComplete(w))
  /\ \A w \in Units : WF_vars(WorkerReady(w))
  /\ WF_vars(BatchedResume)

SpecBatched == Init /\ [][NextBatched]_vars /\ BatchedFairness

\* the same call on a pool in which jobs, units and reads may fail
NextBatchedFailing ==
  \/ NextBatched
  \/ \E r \in reading : ReadDone(r, FALSE)
  \/ \E w \in Units : WorkerError(w)
  \/ \E w \in Units : HandleWorkerError(w)

SpecBatchedFailing == Init /\ [][NextBatchedFailing]_vars

(* ======================= properties ======================= *)
JobsOf(b) == Range(batch[b].segments)
IdsOf(b) == {j.id : j \in JobsOf(b)}

\* C1: a call with at least one job, whose jobs are all answered with
\* 'segmentComplete' and which is not interrupted by destroy, eventually has
\* its promise resolved.
C1_BatchCompletes ==
  (batch[1].status = "pending" /\ Len(batch[1].segments) >= 1)
     ~> (batch[1].status = "resolved")

C3_AbortOnFailure ==
  [][\A i \in DOMAIN processingQueue :
       LET j == processingQueue[i]
       IN (\E f \in failed : f.src = j.src) =>
            /\ \A p \in posted' : p.job # j
            /\ \A r \in reading' : r.job # j]_vars

\* C4: every job whose failure a unit signalled (an 'error' reply or a worker
\* error event while it was in flight) has rejected the promise of the call
\* that submitted it.
C4_FailureRejects ==
  \A j \in failed : batch[j.src].status = "rejected"

SourceDuration == MaxJobs + 2
ValidRange(job) ==
  0 <= job.startTime /\ job.startTime < job.endTime /\ job.endTime <= SourceDuration

\* C5: a job outside 0 <= startTime < endTime <= sourceDuration is never posted
\* to a unit and no unit is taken from the idle set for it.
C5_InvalidRangeRejected ==
  /\ \A p \in posted : ValidRange(p.job)
  /\ \A r \in reading : ValidRange(r.job)

\* C6: the number of units that hold an in-flight job never exceeds maxWorkers.
BusyUnits ==
  {w \in Units : unit[w].req # NoJob}
    \cup {activeJobs[k].worker : k \in DOMAIN activeJobs}
    \cup {r.worker : r \in reading}

C6_ConcurrencyBound == Cardinality(BusyUnits) <= maxWorkers

\* every unit of a pool of two is busy
C6_Witness ==
  /\ maxWorkers = 2
  /\ Cardinality({w \in Units : unit[w].req # NoJob}) = maxWorkers
  /\ Cardinality(DOMAIN activeJobs) = maxWorkers

\* C7: in a single call the k-th invocation of the progress callback carries
\* (k, N), and when all N jobs have succeeded it has been invoked exactly N times.
C7_Progress ==
  LET N == Len(batch[1].segments)
      log == batch[1].progress
  IN /\ Len(log) <= N
     /\ \A k \in DOMAIN log : log[k] = <<k, N>>
     /\ (failed = {} /\ JobsOf(1) \subseteq succeeded) => Len(log) = N

\* two jobs, the second finished first, both reported
C7_Witness ==
  /\ Len(batch[1].segments) = 2
  /\ JobsOf(1) \subseteq succeeded
  /\ failed = {}
  /\ batch[1].api = "download"
  /\ Len(batch[1].sink) = 2
  /\ batch[1].sink[1][1] = GenerateSegmentFilename(1)
  /\ batch[1].progress = <<(<<1, 2>>), (<<2, 2>>)>>

\* C8: after initialize the source is memory-resident exactly when the file
\* size exceeds neither memoryThreshold nor 500 MB.
C8_ModePolicy ==
  videoFile # NoFile =>
    (IsUsingMemoryMode <=> ~(videoFile > memoryThreshold \/ videoFile > StreamingCutoffMB))

\* C9: initialize rejects exactly when every created unit has answered or
\* timed out and none reported 'ready' before its timeout (or none was
\* created); it resolves exactly when they all have and at least one did.
AllUnitsSettled ==
  \A w \in Range(workers) :
    w \in readyInTime \/ w \in timedOut \/ unit[w].ffmpeg = "failed"

C9_InitOutcome ==
  /\ initPromise = "rejected" <=> (initPromise # "none" /\ AllUnitsSettled /\ readyInTime = {})
  /\ initPromise = "resolved" <=> (initPromise # "none" /\ AllUnitsSettled /\ readyInTime # {})

\* one unit ready in time, another timed out: initialize resolved
C9_Witness ==
  /\ initPromise = "resolved"
  /\ readyInTime # {}
  /\ timedOut # {}

\* C10: after initialize resolved, a call made while a ready unit is idle is
\* accepted (it does not throw).
C10_DegradedAccepted ==
  [][(/\ initPromise = "resolved"
      /\ videoFile # NoFile
      /\ Len(availableWorkers) >= 1
      /\ batch[1].status = "none"
      /\ batch'[1].status # "none") => batch'[1].status # "thrown"]_vars

\* C11: the promise of initialize, once pending, is eventually resolved or
\* rejected, whichever units answer 'ready', answer with an init error or
\* stay silent.
C11_InitSettles ==
  (initPromise = "pending") ~> (initPromise \in {"resolved", "rejected"})

\* initialize resolved although one unit never answered: another one was ready
C11_Witness ==
  /\ initPromise = "resolved"
  /\ \E w \in timedOut : unit[w].ffmpeg = "loading"
  /\ \E w \in readyInTime : w \in Range(availableWorkers)

\* C12: a unit whose initialization timeout expired before it reported 'ready'
\* is never in the idle set afterwards and is never posted a job.
C12_TimedOutStaysOut ==
  \A w \in timedOut :
    /\ w \notin Range(availableWorkers)
    /\ \A p \in posted : p.worker # w

\* destroy() has been called
Destroyed == initPromise \in {"resolved", "rejected"} /\ videoFile = NoFile

\* C13: after destroy() the pending queue, the in-flight map, the idle set
\* and the unit set stay empty and no 'processSegment' request is posted.
C13_DestroyIsFinal ==
  [][Destroyed =>
       /\ processingQueue' = <<>>
       /\ activeJobs' = EmptyMap
       /\ availableWorkers' = <<>>
       /\ workers' = <<>>
       /\ posted' = posted]_vars

\* units that reported 'ready' and have neither raised an error event nor
\* been terminated
LiveUnits == {w \in Units : unit[w].ffmpeg = "loaded" /\ w \notin errored}

\* C14: every unit that reached Ready and has not failed or been terminated is
\* in the idle set, holds an in-flight job, or is held by a dispatch step that
\* is reading the source for it.
C14_NoUnitLost ==
  \A w \in LiveUnits :
    \/ w \in Range(availableWorkers)
    \/ \E k \in DOMAIN activeJobs : activeJobs[k].worker = w
    \/ \E r \in reading : r.worker = w

\* C15: when a unit raises a worker error event, every in-flight job held by
\* that unit is rejected and removed from the in-flight map, the entries of
\* the other units are left as they are, and from then on the unit is not in
\* the idle set and is not posted another job.
C15_UnitFailure ==
  [][/\ \A w \in errored' \ errored :
          \A k \in DOMAIN activeJobs :
             IF activeJobs[k].worker = w
             THEN /\ k \notin DOMAIN activeJobs'
                  /\ [job |-> activeJobs[k].job, how |-> "rejected"] \in settled'
             ELSE /\ k \in DOMAIN activeJobs'
                  /\ activeJobs'[k] = activeJobs[k]
     /\ \A w \in errored' :
          /\ w \notin Range(availableWorkers')
          /\ \A p \in posted' \ posted : p.worker # w]_vars

\* C16: a job id is in at most one of the pending queue and the in-flight map,
\* and is in the pending queue at most once.
C16_QueueDisjoint ==
  /\ \A i \in DOMAIN processingQueue : processingQueue[i].id \notin DOMAIN activeJobs
  /\ \A i, j \in DOMAIN processingQueue :
        processingQueue[i].id = processingQueue[j].id => i = j

\* C17: while the promise of a call of N jobs is pending (and destroy has not
\* been called), the jobs in the pending queue, the jobs in the in-flight map
\* and the jobs completed so far add up to N.
C17_Conservation ==
  (batch[1].status = "pending" /\ ~Destroyed) =>
     Len(processingQueue) + Cardinality(DOMAIN activeJobs) + batch[1].completed
        = Len(batch[1].segments)

PostedJobs == {p.job : p \in posted}

\* C18: a job is posted to a unit at most once; once posted it is never again
\* in the pending queue or held by a dispatch step; only posted jobs are
\* settled, and a job promise that was resolved is never rejected and one
\* that was rejected is never resolved.
C18_JobStateMachine ==
  [][/\ \A p \in posted' \ posted : p.job \notin PostedJobs
     /\ \A j \in PostedJobs :
          /\ j \notin Range(processingQueue')
          /\ \A r \in reading' : r.job # j
     /\ settled \subseteq settled'
     /\ \A x \in settled' :
          /\ x.job \in PostedJobs
          /\ \A y \in settled' : y.job = x.job => y.how = x.how]_vars

\* of two posted jobs one was resolved and the other rejected; the queue is empty
C18_Witness ==
  /\ \E x, y \in settled : x.how = "resolved" /\ y.how = "rejected"
  /\ \A x \in settled : x.job \in PostedJobs
  /\ processingQueue = <<>>

\* C19: within one call, when the 'processSegment' request of a job is posted,
\* the request of every job submitted before it has been posted already or is
\* posted in the same dispatch step.
C19_FifoDispatch ==
  [][\A p \in posted' \ posted :
       \A q \in Range(batch'[p.job.src].segments) :
          q.index < p.job.index => q \in {x.job : x \in posted'}]_vars

\* the positions at which the call log of call b holds <<kind, id>>
CallsAt(b, kind, id) == {i \in DOMAIN batch[b].calls : batch[b].calls[i] = <<kind, id>>}

\* C20: in a download call, every job whose promise resolved has been handed
\* to the sink exactly once, with its own bytes and the filename of its index;
\* that sink call precedes the progress callback and the per-segment callback
\* of the job, and the call keeps no payload.
C20_StreamingHandOff ==
  \A b \in Batches :
    batch[b].api = "download" =>
      /\ batch[b].results = EmptyMap
      /\ \A x \in settled :
           (x.job.src = b /\ x.how = "resolved") =>
              /\ Cardinality({i \in DOMAIN batch[b].sink :
                     batch[b].sink[i][1] = GenerateSegmentFilename(x.job.index)}) = 1
              /\ <<GenerateSegmentFilename(x.job.index), Codec(x.job)>> \in Range(batch[b].sink)
              /\ \E i \in CallsAt(b, "sink", x.job.id) :
                   /\ CallsAt(b, "sink", x.job.id) = {i}
                   /\ CallsAt(b, "progress", x.job.id) = {i + 1}
                   /\ CallsAt(b, "segment", x.job.id) = {i + 2}

\* the id of the job for which the n-th sink call of call b was made
SinkJobId(b, n) == batch[b].calls[3 * n - 2][2]

\* C21: the filename of every sink call is the one generated from the index of
\* the job the call was made for, whatever the completion order and the unit,
\* and jobs of one call with different index have different filenames.
C21_DeterministicNaming ==
  \A b \in Batches :
    /\ \A n \in DOMAIN batch[b].sink :
         \E j \in PostedJobs :
            /\ j.id = SinkJobId(b, n)
            /\ batch[b].sink[n][1] = GenerateSegmentFilename(j.index)
    /\ \A j1, j2 \in JobsOf(b) :
         j1.index # j2.index =>
            GenerateSegmentFilename(j1.index) # GenerateSegmentFilename(j2.index)

\* the second job was handed to the sink first, under the name of its index
C21_Witness ==
  /\ Len(batch[1].segments) = 2
  /\ Len(batch[1].sink) >= 1
  /\ SinkJobId(1, 1) = batch[1].segments[2].id
  /\ batch[1].sink[1][1] = GenerateSegmentFilename(batch[1].segments[2].index)

\* C22: no unit is the unit of two in-flight jobs, and a 'processSegment'
\* request is posted only to a unit that has no unanswered request.
C22_OneJobPerUnit ==
  [][/\ \A k1, k2 \in DOMAIN activeJobs' :
          activeJobs'[k1].worker = activeJobs'[k2].worker => k1 = k2
     /\ \A p \in posted' \ posted : unit[p.worker].req = NoJob]_vars

\* a unit that answered its first job holds the second one
C22_Witness ==
  \E k \in DOMAIN activeJobs :
    /\ unit[activeJobs[k].worker].req = activeJobs[k].job
    /\ \E x \in settled :
         /\ x.job # activeJobs[k].job
         /\ [job |-> x.job, worker |-> activeJobs[k].worker] \in posted

\* C23: at most one invocation of processNext is suspended between taking a
\* unit and a job and registering the job as in flight.
C23_NoInterleaving == Cardinality(reading) <= 1

\* C24: between initialize and destroy videoData and videoFile do not change;
\* a dispatch step reads the file only when there is no resident buffer, and a
\* request posted without a read is posted while the buffer is resident.
C24_ModeFixed ==
  [][/\ (videoFile # NoFile /\ ~Destroyed') =>
          (videoData' = videoData /\ videoFile' = videoFile)
     /\ reading' # {} => videoData' = NoData
     /\ \A p \in posted' \ posted :
          (\A r \in reading : r.job # p.job) => videoData # NoData]_vars

\* memory mode: a second job was posted after the first one was answered, and
\* the buffer is the one initialize loaded
C24_Witness ==
  /\ videoData = videoFile
  /\ videoData # NoData
  /\ Cardinality(posted) = 2
  /\ \E x \in settled, k \in DOMAIN activeJobs : x.job # activeJobs[k].job

\* C25: a call made before initialize or after destroy fails with 'Video
\* processor not initialized', posts no request and leaves the pending queue,
\* the in-flight map and the idle set as they are.
C25_UseBeforeInit ==
  [][\A b \in Batches :
       (batch[b].status = "none" /\ batch'[b].status # "none" /\ videoFile = NoFile) =>
          /\ batch'[b].status = "thrown"
          /\ batch'[b].error = "Video processor not initialized"
          /\ batch'[b].timer = FALSE
          /\ posted' = posted
          /\ reading' = reading
          /\ processingQueue' = processingQueue
          /\ activeJobs' = activeJobs
          /\ availableWorkers' = availableWorkers]_vars

\* a call made after destroy() of a pool that had a ready unit
C25_Witness ==
  /\ Destroyed
  /\ readyInTime # {}
  /\ batch[1].status = "thrown"
  /\ batch[1].error = "Video processor not initialized"

C29_BatchIsolation ==
  [][/\ \A i \in DOMAIN processingQueue :
          \/ Destroyed'
          \/ processingQueue[i] \in Range(processingQueue')
          \/ processingQueue[i] \in {p.job : p \in posted'}
          \/ processingQueue[i] \in {r.job : r \in reading'}
     /\ \A k \in DOMAIN activeJobs' : activeJobs'[k].owner = activeJobs'[k].job.src
     /\ \A r \in reading' : r.owner = r.job.src
     /\ \A w \in Units :
          (/\ unit[w].req # NoJob
           /\ unit'[w].req = NoJob
           /\ unit[w].req.id \in DOMAIN activeJobs) =>
              activeJobs[unit[w].req.id].job = unit[w].req]_vars

\* C30: every invocation of a progress callback carries (completed, total)
\* with 0 < completed <= total, total being the number of jobs of the call
\* whose callback it is.
C30_ProgressRange ==
  \A b \in Batches :
    \A k \in DOMAIN batch[b].progress :
       /\ batch[b].progress[k][2] = Len(batch[b].segments)
       /\ 0 < batch[b].progress[k][1]
       /\ batch[b].progress[k][1] <= batch[b].progress[k][2]
\* C26: whatever maxConcurrentWorkers and the hardware hint are, the basic
\* processor holds at most 8 units and the large-file processor at most 6, at
\* most 3 when the file is larger than memoryThreshold; an initialize that
\* has not failed has created at least one unit.
C26_UnitCeiling ==
  /\ Len(basic.workers) <= BasicWorkerCap
  /\ Len(workers) <= WorkerCap
  /\ (videoFile # NoFile /\ videoFile > memoryThreshold) => Len(workers) <= LargeFileWorkers
  /\ initPromise \in {"pending", "resolved"} => Len(workers) >= 1
  /\ basic.init \in {"pending", "resolved"} => Len(basic.workers) >= 1

\* C27: a processBatchedSegments call that is waiting for a chunk whose jobs
\* are all answered with 'segmentComplete' eventually returns, having emitted
\* one file per segment in chunk order and never having more than batchSize
\* jobs queued or in flight.
C27_BatchedCompletes ==
  /\ [](batched.status # "none" =>
          Len(processingQueue) + Cardinality(DOMAIN activeJobs) + Cardinality(reading)
            <= batched.batchSize)
  /\ [](batched.status = "done" => Len(batched.emitted) = Len(batched.segments))
  /\ (batched.status = "waiting" /\ batch[batched.call].status = "pending")
        ~> (batched.status = "done")

\* C31: the poll timer of a call is eventually cleared, whatever happens to
\* the call: success, a failed job, a worker error event or destroy.
C31_TimerCleared == batch[1].timer ~> ~batch[1].timer

\* C32: a unit is at most once in the idle set, every idle unit is one of the
\* pool's units, and no unit that holds an in-flight job, or for which a
\* dispatch step is reading the source, is idle.
C32_IdleSetWellFormed ==
  /\ \A i, j \in DOMAIN availableWorkers : availableWorkers[i] = availableWorkers[j] => i = j
  /\ Range(availableWorkers) \subseteq Range(workers)
  /\ \A k \in DOMAIN activeJobs : activeJobs[k].worker \notin Range(availableWorkers)
  /\ \A r \in reading : r.worker \notin Range(availableWorkers)

\* a unit is back in the idle set after its job while another unit still
\* holds an in-flight job
C32_Witness ==
  /\ \E x \in settled : \E p \in posted : p.job = x.job /\ p.worker \in Range(availableWorkers)
  /\ activeJobs # EmptyMap
  /\ Len(availableWorkers) >= 1

\* C33: when a reply of unit w for segment id x settles an in-flight entry,
\* that entry records w as its unit, and the unit that joins the idle set in
\* that step is the unit recorded in the entry.
C33_ReplyMatching ==
  [][\A w \in Units :
       (/\ unit[w].req # NoJob /\ unit'[w].req = NoJob /\ unit'[w].ffmpeg = "loaded"
        /\ unit[w].req.id \in DOMAIN activeJobs
        /\ unit[w].req.id \notin DOMAIN activeJobs')
       => /\ activeJobs[unit[w].req.id].worker = w
          /\ \A v \in Range(availableWorkers') \ Range(availableWorkers) :
                v = activeJobs[unit[w].req.id].worker]_vars

\* C34: a reply whose segment id is not a key of the in-flight map, an error
\* message without segment id and a 'log' message leave the in-flight map,
\* the pending queue, the idle set, the results and the progress counters as
\* they are.
StaleReply(w) ==
  /\ unit[w].req # NoJob /\ unit'[w].req = NoJob /\ unit'[w].ffmpeg = "loaded"
  /\ unit[w].req.id \notin DOMAIN activeJobs

ErrorWithoutId(w) == unit[w].ffmpeg = "loading" /\ unit'[w].ffmpeg = "failed"

LogMessage(w) == unit'[w].logged # unit[w].logged

C34_StaleMessagesInert ==
  [][\A w \in Units : (StaleReply(w) \/ ErrorWithoutId(w) \/ LogMessage(w)) =>
        /\ activeJobs' = activeJobs
        /\ processingQueue' = processingQueue
        /\ availableWorkers' = availableWorkers
        /\ \A b \in Batches : /\ batch'[b].results = batch[b].results
                               /\ batch'[b].completed = batch[b].completed
                               /\ batch'[b].progress = batch[b].progress
                               /\ batch'[b].status = batch[b].status]_vars

\* a unit that raised a worker error event has answered afterwards and
\* another unit has logged, while a job is still in flight
C34_Witness ==
  /\ \E w \in errored : unit[w].req = NoJob /\ unit[w].ffmpeg = "loaded"
                          /\ \E p \in posted : p.worker = w /\ p.job \in succeeded
  /\ \E w \in Units : unit[w].logged
  /\ activeJobs # EmptyMap

\* C35: when the read of the source for a taken job fails on a processor
\* that was not destroyed, the promise of the call is rejected and the taken
\* unit is back in the idle set.
C35_ReadFailure ==
  [][\A r \in reading \ reading' :
       (videoFile # NoFile /\ [job |-> r.job, worker |-> r.worker] \notin posted')
       => /\ batch'[r.owner].status = "rejected"
          /\ r.worker \in Range(availableWorkers')]_vars

ChunkRejected ==
  /\ batched.status \in {"waiting", "rejected"}
  /\ batch[batched.call].status \in {"rejected", "thrown"}

Emitted(name) == {m \in DOMAIN batched.emitted : batched.emitted[m] = name}

C37_ChunkFailure ==
  /\ [](ChunkRejected =>
          /\ \A b \in Batches : b > batched.call => batch[b].status = "none"
          /\ \A j \in Range(batch[batched.call].segments) : Emitted(BatchedFilename(j.index)) = {}
          /\ \A n \in 1..batched.i :
                Cardinality(Emitted(BatchedFilename(batched.segments[n].index))) = 1)
  /\ [][ChunkRejected => (batched' = batched \/ batched' = [batched EXCEPT !.status = "rejected"])]_vars

\* the helper was rejected by a chunk in which one job had succeeded before
\* another failed
C37_Witness ==
  /\ batched.status = "rejected"
  /\ batch[1].status = "rejected"
  /\ batch[1].results # EmptyMap
  /\ batched.emitted = <<>>

\* C38: a call made on an initialized processor whose idle set is empty
\* throws 'No FFmpeg workers available' in the same step: it starts no timer,
\* queues and posts nothing, and leaves the pending queue, the in-flight map
\* and the other calls as they are.
C38_SaturatedRejected ==
  [][\A b \in Batches :
       (/\ batch[b].status = "none" /\ batch'[b].status # "none"
        /\ videoFile # NoFile /\ Len(availableWorkers) = 0)
       => /\ batch'[b].status = "thrown"
          /\ batch'[b].error = "No FFmpeg workers available"
          /\ batch'[b].timer = FALSE
          /\ processingQueue' = processingQueue
          /\ activeJobs' = activeJobs
          /\ posted' = posted
          /\ reading' = reading
          /\ availableWorkers' = availableWorkers
          /\ \A c \in Batches \ {b} : batch'[c] = batch[c]]_vars

\* the second call was refused while the first one had a job in flight and a
\* job waiting
C38_Witness ==
  /\ batch[1].status = "pending"
  /\ batch[2].status = "thrown" /\ batch[2].error = "No FFmpeg workers available"
  /\ batch[2].segments # <<>>
  /\ activeJobs # EmptyMap
  /\ Len(processingQueue) >= 1
  /\ \A i \in DOMAIN processingQueue : processingQueue[i].src = 1

====
